---- MODULE Spec2Model ----
(***************************************************************************)
(* A model of the TodoList component (src/client/components/TodoList.tsx): *)
(* its view state (selected filter, active tab, auto-animate hook), the    *)
(* value changes Tabs.Root has yet to report and React has yet to render,  *)
(* query cache behind api.todo.getAll.useQuery, the todoStatus.update and  *)
(* todo.delete mutations in flight, and the backend the calls reach.       *)
(*                                                                         *)
(* The backend routers and the query library are not part of the component *)
(* file.  The backend is modelled as a table of todos with the three       *)
(* procedures the component calls.  The query library is modelled by what  *)
(* the component relies on: one cached query per input (the statuses       *)
(* array), data undefined until the first response of that query, a fetch  *)
(* when the observed input changes, a refetch of the observed query when   *)
(* the window regains focus or the network comes back, and refetch()       *)
(* re-running every cached query (restarting a fetch in flight when the    *)
(* query already has data, joining it when it has none).                   *)
(*                                                                         *)
(* A reload of the page discards the component and constructs a new one:   *)
(* the new component starts in Init.                                       *)
(***************************************************************************)
EXTENDS Naturals, FiniteSets, Sequences, Bags, TLC

\* ------------------------------------------------------------------ bounds
NumTodos == 2
MaxClicks == 2

Ids == 1..NumTodos

\* ------------------------------------------------------------------- types
\* type TodoStatus = 'completed' | 'pending'
TodoStatus == {"completed", "pending"}

\* useState<TodoStatus | 'all'>
Filters == TodoStatus \cup {"all"}

\* A todo as the component reads it: todo.id, todo.status (todo.body is shown
\* verbatim and decides nothing).
Todo(i, s) == [id |-> i, status |-> s]

VARIABLES
    server,          \* backend table: id -> "pending" | "completed" | "absent"
    selectedStatus,  \* useState value
    activeTab,       \* Tabs.Root's own (uncontrolled) value
    cache,           \* query cache: one getAll query per filter
    mutations,       \* bag of mutation calls in flight
    ulAnimated,      \* the mounted <ul> has had autoAnimate applied
    notify,          \* tab values for which onValueChange is yet to be called
    queued,          \* setSelectedStatus updates queued, not yet rendered
    lost,            \* calls the backend carried out that failed at the client
    requested,       \* filters whose getAll request the last step issued
    clicks           \* the user's actions so far (tab selections, toggles, deletes)

vars == <<server, selectedStatus, activeTab, cache, mutations, ulAnimated,
          notify, queued, lost, requested, clicks>>

\* --------------------------------------------------------------- backend
\* api.todo.getAll({statuses}): the todos whose status is one of statuses.
GetAll(statuses) ==
    {Todo(i, server[i]) : i \in {j \in Ids : server[j] \in statuses}}

\* api.todoStatus.update({todoId, status}) on the table.
ApplyUpdate(tbl, i, s) ==
    IF tbl[i] = "absent" THEN tbl ELSE [tbl EXCEPT ![i] = s]

\* api.todo.delete({id}) on the table.
ApplyDelete(tbl, i) == [tbl EXCEPT ![i] = "absent"]

\* ------------------------------------------------------------- component
\* statuses: selectedStatus === 'all' ? ['completed','pending'] : [selectedStatus]
QueryStatuses(sel) ==
    IF sel = "all" THEN {"completed", "pending"} ELSE {sel}

\* const { data: todos = [] } = useQuery(...): data of the query of the
\* selected filter, [] while it is undefined.  data is <<>> (undefined) or
\* <<list>>.
Todos ==
    IF cache[selectedStatus].data = <<>> THEN {} ELSE cache[selectedStatus].data[1]

\* A handler that completes a todo but never reopens one.
ToggledAlwaysCompleted(currentStatus) == "completed"

\* status: currentStatus === 'pending' ? 'completed' : 'pending'
Toggled(currentStatus) ==
    IF currentStatus = "pending" THEN "completed" ELSE "pending"

\* Every tab left on the unfiltered list of the unfiltered query.
DisplayedUnfiltered(tab) ==
    IF cache["all"].data = <<>> THEN {} ELSE cache["all"].data[1]

\* The <li> items of Tabs.Content value={tab}.
Displayed(tab) ==
    CASE tab = "all"       -> Todos
      [] tab = "pending"   -> {t \in Todos : t.status = "pending"}
      [] tab = "completed" -> {t \in Todos : t.status = "completed"}

\* Tabs.Content renders its children only for the active tab.
DisplayedNow == Displayed(activeTab)

DisplayedIds == {t.id : t \in DisplayedNow}

\* ---------------------------------------------------------- presentation
\* className tokens shared by the three item containers, checkboxes, labels.
ContainerBase ==
    {"flex", "items-center", "rounded-12", "border", "px-4", "py-3", "shadow-sm"}

CheckboxBase ==
    {"flex", "h-6", "w-6", "items-center", "justify-center", "rounded-6",
     "border", "focus:outline-none"}

CheckboxStarter ==
    CheckboxBase \cup {"border-gray-300", "focus:border-gray-700",
                       "data-[state=checked]:border-gray-700",
                       "data-[state=checked]:bg-gray-700"}

LabelBase == {"block", "pl-3", "font-medium"}

\* The markup of one item of Tabs.Content value={tab}: the checked prop of
\* Checkbox.Root and the class names of the container <div>, the checkbox
\* and the <label>.
Render(tab, todo) ==
    LET done == (todo.status = "completed") IN
    CASE tab = "all" ->
           [checked   |-> done,
            container |-> ContainerBase \cup {"border-gray-200"}
                            \cup (IF done THEN {"bg"} ELSE {}),
            checkbox  |-> CheckboxBase \cup {"transition-colors", "duration-300"}
                            \cup (IF done THEN {"bg-gray-700"} ELSE {"bg-white"}),
            label     |-> LabelBase
                            \cup (IF done THEN {"text-gray-500", "line-through"} ELSE {})]
      [] tab = "pending" ->
           [checked   |-> done,
            container |-> ContainerBase \cup {"border-gray-200"}
                            \cup (IF done THEN {"bg-gray-700"} ELSE {}),
            checkbox  |-> CheckboxStarter,
            label     |-> LabelBase
                            \cup (IF done THEN {"line-through-custom", "text-white"} ELSE {})]
      [] tab = "completed" ->
           [checked   |-> done,
            container |-> ContainerBase \cup {"border-gray-300"}
                            \cup (IF done THEN {"text-gray-500", "line-through"} ELSE {}),
            checkbox  |-> CheckboxStarter,
            label     |-> LabelBase
                            \cup (IF done THEN {"line-through-custom", "text-gray-500"} ELSE {})]

\* What the class names amount to.  The utility classes that paint a
\* background darker than the page's white; "bg" alone is no utility class.
DarkBackgrounds ==
    {"bg-gray-50", "bg-gray-100", "bg-gray-200", "bg-gray-300", "bg-gray-400",
     "bg-gray-500", "bg-gray-600", "bg-gray-700", "bg-gray-800", "bg-gray-900"}

\* The item (the container <div>) has a darker background.
DarkerBackground(p) == p.container \cap DarkBackgrounds # {}

\* The text is struck through: text-decoration set on the label, or on the
\* container, from which it is drawn across the label.
LineThrough(p) == "line-through" \in (p.label \cup p.container)

\* ------------------------------------------------------------ query cache
\* A query of the cache: data (<<>> undefined, or <<list>>), its fetch
\* (absent: no such query; idle; sent: request on its way; resp: the
\* response on its way back), and the response's list.
NoQuery == [data |-> <<>>, phase |-> "absent", resp |-> <<>>]

\* useQuery observing a query: fetch it unless a fetch is already in flight
\* (data is stale as soon as it arrives, staleTime being 0).
Observe(q) ==
    IF q.phase \in {"absent", "idle"} THEN [q EXCEPT !.phase = "sent"] ELSE q

\* useQuery observing a query sends a request unless it joins a fetch.
ObserveRequests(q) == q.phase \in {"absent", "idle"}

\* refetch() on one query: a query that exists is fetched; a fetch in
\* flight is dropped and restarted when the query has data, and joined
\* when it has none.
RefetchQuery(q) ==
    CASE q.phase = "absent" -> q
      [] q.phase = "idle"   -> [q EXCEPT !.phase = "sent"]
      [] OTHER              ->
           IF q.data # <<>> THEN [q EXCEPT !.phase = "sent", !.resp = <<>>]
                            ELSE q

\* refetch() on one query sends a request unless the query does not exist
\* or its first fetch is in flight (which it joins).
RefetchRequests(q) ==
    \/ q.phase = "idle"
    \/ q.phase \in {"sent", "resp"} /\ q.data # <<>>

\* apiContext.todo.getAll.refetch(): every getAll query, whatever its input.
\* The cache afterwards, and the filters whose query it requested.
Refetch(c) ==
    [cache     |-> [k \in Filters |-> RefetchQuery(c[k])],
     requested |-> {k \in Filters : RefetchRequests(c[k])}]

\* A success handler that forgets the refetch.
OnSuccessNoRefetch(c) == [cache |-> c, requested |-> {}]

\* onSuccess of todoStatus.update.useMutation and of todo.delete.useMutation
\* (the two are the same): the cache after its call of refetch().
OnSuccess(c) == Refetch(c)

\* Neither useMutation has an onError: the cache is as it was, and nothing
\* is requested.
OnError(c) == [cache |-> c, requested |-> {}]

\* ------------------------------------------------------------- mutations
\* A call in flight.  phase: req (on its way to the backend), ok (carried
\* out, the success on its way back).
Call(api, i, s) == [api |-> api, id |-> i, status |-> s, phase |-> "req"]

InFlight == BagToSet(mutations)

One(m) == SetToBag({m})

\* updateTodoStatus({todoId, status}) as handleStatusChange calls it.
UpdateCall(todoId, currentStatus) ==
    Call("todoStatus.update", todoId, Toggled(currentStatus))

\* deleteTodo({id: todoId}) as handleDelete calls it.
DeleteCall(todoId) == Call("todo.delete", todoId, "none")

\* ------------------------------------------------------------- animation
\* The effect's dependency array [listRef]: the ref object, the same at
\* every render of a mounted component.
EffectDeps == <<"listRef">>

\* useEffect runs after the first render and after a render whose deps
\* differ from the previous render's.  prevDeps is <<>> at the first render.
EffectRuns(prevDeps) == prevDeps = <<>> \/ prevDeps[1] # EffectDeps

\* Whether the mounted <ul> carries autoAnimate after a render.  freshUl:
\* the render mounted a new <ul> (the tab's content was not mounted before).
\* The active tab's <ul> is mounted, so listRef.current is not null.
AfterRender(prevDeps, freshUl, was) ==
    IF EffectRuns(prevDeps) THEN TRUE
    ELSE IF freshUl THEN FALSE ELSE was

\* ----------------------------------------------------------------- Init
\* The state after the first render: filter and tab 'all', the query of
\* ['completed','pending'] requested, the effect run.
MountedCache == [k \in Filters |-> IF k = "all" THEN Observe(NoQuery) ELSE NoQuery]

Init ==
    /\ server \in [Ids -> TodoStatus]
    /\ selectedStatus = "all"
    /\ activeTab = "all"
    /\ cache = MountedCache
    /\ mutations = EmptyBag
    /\ ulAnimated = AfterRender(<<>>, TRUE, FALSE)
    /\ notify = <<>>
    /\ queued = <<>>
    /\ lost = 0
    /\ requested = {"all"}
    /\ clicks = 0

\* -------------------------------------------------------------- actions
\* The remote calls in flight: mutations, and getAll fetches.
Fetching == {k \in Filters : cache[k].phase \in {"sent", "resp"}}

Calls == BagCardinality(mutations) + Cardinality(Fetching)

\* The bound on the user: at most MaxClicks tab selections, toggles and
\* deletes in a behaviour (the calls they start interleave freely).
MayAct == clicks < MaxClicks

\* Nothing is in flight.
Quiescent == Calls = 0

\* No tab selection awaits its onValueChange or its re-render.
Settled == notify = <<>> /\ queued = <<>>

\* onValueChange handler that drops the value.
OnValueChangeKeep(value) == selectedStatus

\* onValueChange={(value) => setSelectedStatus(value)}: the new selectedStatus.
OnValueChange(value) == value

\* The user presses the trigger of tab t.  Tabs.Root keeps its value itself
\* (defaultValue): it sets the value and commits, and the content of tab t is
\* mounted in place of the old one, built from the elements of the
\* component's last render: the todos of the filter still selected.  The
\* component is not rendered (its effect does not run, useQuery is not
\* called), and onValueChange is yet to be called.
PressTab(t) ==
    /\ t # activeTab
    /\ MayAct
    /\ activeTab' = t
    /\ notify' = Append(notify, t)
    /\ ulAnimated' = AfterRender(<<EffectDeps>>, TRUE, ulAnimated)
    /\ clicks' = clicks + 1
    /\ requested' = {}
    /\ UNCHANGED <<server, selectedStatus, cache, mutations, queued, lost>>

\* Tabs.Root reports a changed value after its commit: onValueChange(value)
\* calls setSelectedStatus(value), which queues the update and no more.
NotifyValueChange ==
    /\ notify # <<>>
    /\ queued' = Append(queued, OnValueChange(Head(notify)))
    /\ notify' = Tail(notify)
    /\ requested' = {}
    /\ UNCHANGED <<server, selectedStatus, activeTab, cache, mutations,
                   ulAnimated, lost, clicks>>

\* React renders the component with the first n queued updates applied (the
\* last of them is the state): useQuery observes the query of the new
\* statuses when they differ from the previous render's.  No <ul> is
\* mounted by this render.
Rerender(n) ==
    /\ n \in 1..Len(queued)
    /\ selectedStatus' = queued[n]
    /\ queued' = SubSeq(queued, n + 1, Len(queued))
    /\ cache' = IF selectedStatus' # selectedStatus
                THEN [cache EXCEPT ![selectedStatus'] = Observe(@)]
                ELSE cache
    /\ requested' = IF /\ selectedStatus' # selectedStatus
                       /\ ObserveRequests(cache[selectedStatus'])
                    THEN {selectedStatus'} ELSE {}
    /\ ulAnimated' = AfterRender(<<EffectDeps>>, FALSE, ulAnimated)
    /\ UNCHANGED <<server, activeTab, mutations, notify, lost, clicks>>

\* onCheckedChange of a displayed todo's checkbox: handleStatusChange.
HandleStatusChange(todo) ==
    /\ todo \in DisplayedNow
    /\ MayAct
    /\ mutations' = mutations (+) One(UpdateCall(todo.id, todo.status))
    /\ clicks' = clicks + 1
    /\ requested' = {}
    /\ UNCHANGED <<server, selectedStatus, activeTab, cache, ulAnimated,
                   notify, queued, lost>>

\* handleDelete with an optimistic update: the todo is also taken out of
\* the list the component holds.
HandleDeleteOptimistic(todo) ==
    /\ todo \in DisplayedNow
    /\ MayAct
    /\ mutations' = mutations (+) One(DeleteCall(todo.id))
    /\ clicks' = clicks + 1
    /\ cache' = [cache EXCEPT ![selectedStatus].data = <<Todos \ {todo}>>]
    /\ requested' = {}
    /\ UNCHANGED <<server, selectedStatus, activeTab, ulAnimated,
                   notify, queued, lost>>

\* onClick of a displayed todo's delete button: handleDelete.
HandleDelete(todo) ==
    /\ todo \in DisplayedNow
    /\ MayAct
    /\ mutations' = mutations (+) One(DeleteCall(todo.id))
    /\ clicks' = clicks + 1
    /\ requested' = {}
    /\ UNCHANGED <<server, selectedStatus, activeTab, cache, ulAnimated,
                   notify, queued, lost>>

\* The backend carries out call m (on a todo that is gone, nothing changes);
\* its response is on its way.
ServeOk(m) ==
    /\ m \in InFlight
    /\ m.phase = "req"
    /\ server' = IF m.api = "todo.delete" THEN ApplyDelete(server, m.id)
                 ELSE ApplyUpdate(server, m.id, m.status)
    /\ mutations' = (mutations (-) One(m)) (+) One([m EXCEPT !.phase = "ok"])
    /\ requested' = {}
    /\ UNCHANGED <<selectedStatus, activeTab, cache, ulAnimated,
                   notify, queued, lost, clicks>>

\* The success of call m reaches the component: onSuccess runs.
MutationSuccess(m) ==
    /\ m \in InFlight
    /\ m.phase = "ok"
    /\ mutations' = mutations (-) One(m)
    /\ cache' = OnSuccess(cache).cache
    /\ requested' = OnSuccess(cache).requested
    /\ UNCHANGED <<server, selectedStatus, activeTab, ulAnimated,
                   notify, queued, lost, clicks>>

\* Call m fails at the client: it is rejected or never arrives (the table is
\* as it was), or the backend has carried it out and its response does not
\* come back (the table has changed).  The mutation rejects either way, and
\* no handler of the component runs.
MutationError(m) ==
    /\ m \in InFlight
    /\ m.phase \in {"req", "ok"}
    /\ mutations' = mutations (-) One(m)
    /\ cache' = OnError(cache).cache
    /\ requested' = OnError(cache).requested
    /\ lost' = IF m.phase = "ok" THEN lost + 1 ELSE lost
    /\ UNCHANGED <<server, selectedStatus, activeTab, ulAnimated,
                   notify, queued, clicks>>

\* The backend answers the getAll request of query k.
FetchServe(k) ==
    /\ cache[k].phase = "sent"
    /\ cache' = [cache EXCEPT ![k].phase = "resp",
                              ![k].resp = <<GetAll(QueryStatuses(k))>>]
    /\ requested' = {}
    /\ UNCHANGED <<server, selectedStatus, activeTab, mutations, ulAnimated,
                   notify, queued, lost, clicks>>

\* The response of query k arrives: it becomes the query's data.
FetchDeliver(k) ==
    /\ cache[k].phase = "resp"
    /\ cache' = [cache EXCEPT ![k] = [data |-> @.resp, phase |-> "idle", resp |-> <<>>]]
    /\ requested' = {}
    /\ UNCHANGED <<server, selectedStatus, activeTab, mutations, ulAnimated,
                   notify, queued, lost, clicks>>

\* The fetch of query k fails: the query keeps the data it had.
FetchFail(k) ==
    /\ cache[k].phase \in {"sent", "resp"}
    /\ cache' = [cache EXCEPT ![k].phase = "idle", ![k].resp = <<>>]
    /\ requested' = {}
    /\ UNCHANGED <<server, selectedStatus, activeTab, mutations, ulAnimated,
                   notify, queued, lost, clicks>>

\* The window regains focus, or the network comes back: the query library
\* refetches the query useQuery observes (stale at once, staleTime being 0),
\* unless a fetch of it is in flight, which it joins.
FocusRefetch ==
    /\ cache[selectedStatus].phase = "idle"
    /\ cache' = [cache EXCEPT ![selectedStatus].phase = "sent"]
    /\ requested' = {selectedStatus}
    /\ UNCHANGED <<server, selectedStatus, activeTab, mutations, ulAnimated,
                   notify, queued, lost, clicks>>

AllTodos == {Todo(i, s) : i \in Ids, s \in TodoStatus}

\* The user's toggles and deletes, and the calls' ways to and from the backend.
Mutate ==
    \/ \E todo \in AllTodos : HandleStatusChange(todo)
    \/ \E todo \in AllTodos : HandleDelete(todo)
    \/ \E m \in InFlight : ServeOk(m)
    \/ \E m \in InFlight : MutationSuccess(m)
    \/ \E m \in InFlight : MutationError(m)

Fetch ==
    \/ \E k \in Filters : FetchServe(k)
    \/ \E k \in Filters : FetchDeliver(k)

\* A tab selection, step by step.
Tab ==
    \/ \E t \in Filters : PressTab(t)
    \/ NotifyValueChange

Next ==
    \/ Tab
    \/ \E n \in 1..Len(queued) : Rerender(n)
    \/ Mutate
    \/ Fetch
    \/ FocusRefetch
    \/ \E k \in Filters : FetchFail(k)

Spec == Init /\ [][Next]_vars

\* Every getAll fetch succeeds.
NextFetchOk ==
    \/ Tab
    \/ \E n \in 1..Len(queued) : Rerender(n)
    \/ Mutate
    \/ Fetch
    \/ FocusRefetch

SpecFetchOk == Init /\ [][NextFetchOk]_vars

\* Every getAll fetch succeeds, and the user presses no tab: the selected
\* filter stays as it is.
NextFixedFilter ==
    \/ Mutate
    \/ Fetch
    \/ FocusRefetch

SpecFixedFilter == Init /\ [][NextFixedFilter]_vars

\* ================================================================ claims
\* What the backend holds of the statuses a filter permits.
ServerView(sel) ==
    {Todo(i, server[i]) :
        i \in {j \in Ids : server[j] \in TodoStatus
                           /\ (sel = "all" \/ server[j] = sel)}}

\* The step delivers a getAll response: it becomes the data of its query.
ResponseArrives ==
    \E k \in Filters : /\ cache[k].phase = "resp"
                       /\ cache'[k].phase = "idle"
                       /\ cache'[k].data = cache[k].resp

\* The step is a press of a tab trigger.
TabSelected == activeTab' # activeTab

\* The step renders the component with another selected filter.
FilterChanges == selectedStatus' # selectedStatus

\* The step issues a mutation call.
CallIssued == BagCardinality(mutations') > BagCardinality(mutations)

\* The step takes a mutation call out of flight.
CallSettled == BagCardinality(mutations') < BagCardinality(mutations)

\* The step is the query library's refetch on focus or reconnect.
FocusRefetches ==
    /\ cache[selectedStatus].phase = "idle"
    /\ requested' = {selectedStatus}
    /\ selectedStatus' = selectedStatus
    /\ mutations' = mutations

\* The step delivers the success of a mutation call the backend carried out.
SuccessArrives ==
    \E m \in InFlight :
        m.phase = "ok" /\ mutations' = mutations (-) One(m) /\ lost' = lost

\* The step delivers the failure of a mutation call: of one the backend did
\* not carry out, or of one it did.
FailureArrives ==
    \E m \in InFlight :
        /\ mutations' = mutations (-) One(m)
        /\ \/ m.phase = "req"
           \/ m.phase = "ok" /\ lost' = lost + 1

\* C1: every displayed todo has, in the snapshot it is displayed from, a
\* status the selected filter permits: pending only under 'pending',
\* completed only under 'completed', either under 'all'.
C1_DisplayedPermittedByFilter ==
    \A t \in DisplayedNow :
        /\ selectedStatus = "pending" => t.status = "pending"
        /\ selectedStatus = "completed" => t.status = "completed"
        /\ selectedStatus = "all" => t.status \in {"pending", "completed"}

\* C1 witness: the pending tab shows a todo while the cached unfiltered list
\* holds a completed one, and calls are in flight.
C1_Witness ==
    /\ selectedStatus = "pending"
    /\ activeTab = "pending"
    /\ DisplayedNow # {}
    /\ cache["all"].data # <<>>
    /\ \E t \in cache["all"].data[1] : t.status = "completed"
    /\ mutations # EmptyBag

\* C2: every displayed todo is presented by its status: pending with an
\* unchecked checkbox and no line-through; completed with a checked
\* checkbox, a darker background and line-through text.
C2_PresentationByStatus ==
    \A t \in DisplayedNow :
        LET p == Render(activeTab, t) IN
        /\ t.status = "pending" => ~p.checked /\ ~LineThrough(p)
        /\ t.status = "completed" =>
               p.checked /\ DarkerBackground(p) /\ LineThrough(p)

\* C3: a toggle of a displayed todo issues exactly one todoStatus.update
\* call, carrying the todo's id and the opposite of its displayed status;
\* and no todoStatus.update call is issued otherwise.
C3_ToggleIssuesOppositeStatus ==
    [][CallIssued =>
          /\ \A todo \in DisplayedNow :
                 HandleStatusChange(todo) =>
                     mutations' = mutations (+) One(
                         [api |-> "todoStatus.update", id |-> todo.id,
                          status |-> IF todo.status = "pending" THEN "completed"
                                     ELSE "pending",
                          phase |-> "req"])
          /\ \A m \in BagToSet(mutations') :
                 (m.api = "todoStatus.update" /\ m.phase = "req"
                     /\ CopiesIn(m, mutations') > CopiesIn(m, mutations)) =>
                     /\ mutations' = mutations (+) One(m)
                     /\ \E t \in DisplayedNow :
                            t.id = m.id /\ t.status # m.status
                            /\ m.status \in TodoStatus]_vars

\* C3 witness: both kinds of toggle are in flight: one completing a todo
\* shown pending, one reopening a todo shown completed.
C3_Witness ==
    \E m1, m2 \in InFlight :
        /\ m1.api = "todoStatus.update" /\ m1.phase = "req"
        /\ m1.status = "completed"
        /\ m2.api = "todoStatus.update" /\ m2.phase = "req"
        /\ m2.status = "pending"
        /\ m1.id # m2.id
        /\ Todo(m1.id, "pending") \in DisplayedNow
        /\ Todo(m2.id, "completed") \in DisplayedNow

\* C4: once a todo's delete has succeeded and the refetch it triggered has
\* completed, the todo is not displayed.  Only a served todo.delete takes a
\* todo off the backend's table; with no call lost and nothing in flight
\* its success has reached the component and every fetch has completed, and
\* no tab selection is half done.
C4_DeletedTodoNotDisplayed ==
    (Quiescent /\ Settled /\ lost = 0) =>
        \A i \in DisplayedIds : server[i] # "absent"

\* C5 as stated: the todos the component holds change only when a getAll
\* response arrives; toggle and delete only issue a call; the calls are of
\* the three procedures.
C5_TodosChangeOnlyOnResponse ==
    [][/\ Todos' # Todos => ResponseArrives
       /\ CallIssued => /\ cache' = cache
                        /\ Todos' = Todos
                        /\ selectedStatus' = selectedStatus
                        /\ server' = server
       /\ \A m \in BagToSet(mutations') :
              m.api \in {"todoStatus.update", "todo.delete"}]_vars

\* C5 amended: the todos the component holds change only when a getAll
\* response arrives or the component is rendered with another selected
\* filter (after a tab selection); toggle and delete only issue a call; the
\* calls are of the three procedures.
C5_TodosChangeOnResponseOrTab ==
    [][/\ Todos' # Todos => ResponseArrives \/ FilterChanges
       /\ CallIssued => /\ cache' = cache
                        /\ Todos' = Todos
                        /\ selectedStatus' = selectedStatus
                        /\ server' = server
       /\ \A m \in BagToSet(mutations') :
              m.api \in {"todoStatus.update", "todo.delete"}]_vars

\* C5 witness: a toggle and a delete are in flight, the backend has carried
\* one out, and the component still holds the list as fetched before.
C5_Witness ==
    /\ \E m \in InFlight : m.api = "todo.delete" /\ m.phase = "ok"
    /\ \E m \in InFlight : m.api = "todoStatus.update"
    /\ \E t \in Todos : server[t.id] = "absent"
    /\ cache[selectedStatus].phase = "idle"

\* C6 as stated: the selected filter is 'all' at the mount, is always one
\* of all, pending, completed and always the tab whose content is shown, and
\* changes only in a tab selection, to the tab selected.
C6_FilterIsActiveTab ==
    /\ selectedStatus = "all"
    /\ [](selectedStatus \in {"all", "pending", "completed"}
          /\ selectedStatus = activeTab)
    /\ [][selectedStatus' # selectedStatus =>
              TabSelected /\ selectedStatus' = activeTab']_vars

\* C6 amended: the selected filter is 'all' at the mount and always one of
\* all, pending, completed; it is the tab whose content is shown whenever no
\* tab selection awaits its onValueChange or its re-render; and it changes
\* only in the render of a queued tab selection, to the tab that was
\* selected.
C6_FilterFollowsActiveTab ==
    /\ selectedStatus = "all"
    /\ [](/\ selectedStatus \in {"all", "pending", "completed"}
          /\ Settled => selectedStatus = activeTab
          /\ (notify = <<>> /\ queued # <<>>) =>
                 queued[Len(queued)] = activeTab)
    /\ [][selectedStatus' # selectedStatus =>
              /\ \E n \in 1..Len(queued) :
                     /\ selectedStatus' = queued[n]
                     /\ queued' = SubSeq(queued, n + 1, Len(queued))
              /\ activeTab' = activeTab]_vars

\* C6 witness: the completed tab has been selected and rendered (nothing of
\* the selection is pending), with its list fetched and a call in flight.
C6_Witness ==
    /\ selectedStatus = "completed"
    /\ activeTab = "completed"
    /\ Settled
    /\ cache["completed"].data # <<>>
    /\ mutations # EmptyBag

\* C7: the list element displayed has the auto-animate hook attached.
C7_DisplayedListAnimated == ulAnimated

\* C8 as stated: a getAll request is issued exactly in the steps in which a
\* mutation call succeeds, and then exactly one; a failure issues none and
\* leaves the held todos and the filter as they were.
C8_RefetchExactlyOnSuccess ==
    [][/\ requested' # {} <=> SuccessArrives
       /\ SuccessArrives => Cardinality(requested') = 1
       /\ FailureArrives => /\ requested' = {}
                            /\ Todos' = Todos
                            /\ selectedStatus' = selectedStatus]_vars

\* C8 amended: the success of a mutation call triggers one refetch(), which
\* requests anew every cached getAll query but one whose first fetch is in
\* flight (it joins that fetch) and touches no data; a failure requests
\* nothing and leaves the cache and the filter as they were; and besides a
\* success, only the render of a tab selection and the refetch on focus or
\* reconnect issue a getAll request, each for the observed query alone.
C8_RefetchOnSuccess ==
    [][/\ SuccessArrives =>
              /\ requested' =
                     {k \in Filters :
                         \/ cache[k].phase = "idle"
                         \/ cache[k].phase \in {"sent", "resp"}
                               /\ cache[k].data # <<>>}
              /\ \A k \in Filters :
                     /\ k \in requested' =>
                            cache'[k].phase = "sent" /\ cache'[k].resp = <<>>
                     /\ k \notin requested' => cache'[k] = cache[k]
                     /\ cache'[k].data = cache[k].data
       /\ FailureArrives => /\ requested' = {}
                            /\ cache' = cache
                            /\ selectedStatus' = selectedStatus
       /\ requested' # {} =>
              \/ SuccessArrives
              \/ FilterChanges /\ requested' = {selectedStatus'}
              \/ FocusRefetches]_vars

\* C8 witness: a success has just arrived: no mutation is in flight, and
\* both the observed query and the one left behind are requested anew.
C8_Witness ==
    /\ mutations = EmptyBag
    /\ requested = {"all", "pending"}
    /\ selectedStatus = "pending"
    /\ cache["pending"].data # <<>> /\ cache["pending"].phase = "sent"
    /\ cache["all"].data # <<>> /\ cache["all"].phase = "sent"

\* C9: with every fetch succeeding and the filter as it was at the mount,
\* once nothing is in flight the displayed todos are exactly the backend's
\* todos the filter permits, each with its backend status.
C9_QuiescentShowsServer ==
    Quiescent => DisplayedNow = ServerView(selectedStatus)

====
